---- MODULE Spec2Model ----
(***************************************************************************)
(* Model of the retrieval pipeline of the RAG chatbot (src/src/core/rag.py) *)
(* and of the HTTP handlers that drive it (src/src/api/app.py).             *)
(*                                                                         *)
(* Python strings are sequences of one-character strings, so that strip,   *)
(* replace, startswith, re.split and str.split are computed as the code    *)
(* computes them.                                                          *)
(***************************************************************************)
EXTENDS Integers, Sequences, FiniteSets, TLC

(***************************************************************************)
(* Bounds of the model.                                                    *)
(***************************************************************************)
\* number of /ask requests that may be suspended at `await call_llm_async`
MaxPending == 1

(***************************************************************************)
(* Configuration (src/src/core/config.py).  CHUNK_SIZE and CHUNK_OVERLAP   *)
(* are read from the environment; the model runs the deployment            *)
(* CHUNK_SIZE=2, CHUNK_OVERLAP=0 so that short texts produce several       *)
(* chunks.                                                                 *)
(***************************************************************************)
CHUNK_SIZE == 2
CHUNK_OVERLAP == 0
\* default of the n_results parameter of query_rag_async
N_RESULTS == 3

(***************************************************************************)
(* Python string primitives.                                               *)
(***************************************************************************)
IsSpace(c) == c = " "

IsTerminator(c) == c \in {".", "!", "?"}

\* str.strip(): drop leading and trailing whitespace
strip(s) ==
    LET nonSpace == {i \in 1..Len(s) : ~IsSpace(s[i])}
        Min(S) == CHOOSE x \in S : \A y \in S : x <= y
        Max(S) == CHOOSE x \in S : \A y \in S : x >= y
    IN  IF nonSpace = {} THEN <<>> ELSE SubSeq(s, Min(nonSpace), Max(nonSpace))

\* the guard `not s or len(s.strip()) == 0`
IsBlank(s) == Len(s) = 0 \/ Len(strip(s)) = 0

\* str.replace(old, new) for one-character old and new
replace(s, old, new) == [i \in 1..Len(s) |-> IF s[i] = old THEN new ELSE s[i]]

\* str.startswith(prefix)
startswith(s, prefix) ==
    /\ Len(prefix) <= Len(s)
    /\ SubSeq(s, 1, Len(prefix)) = prefix

Digit == <<"0", "1", "2", "3", "4", "5", "6", "7", "8", "9">>

\* str(i) for a natural number i
RECURSIVE str(_)
str(i) == IF i < 10 THEN <<Digit[i + 1]>>
          ELSE str(i \div 10) \o <<Digit[(i % 10) + 1]>>

\* sep.join(parts)
RECURSIVE join(_, _)
join(sep, parts) ==
    IF Len(parts) = 0 THEN <<>>
    ELSE IF Len(parts) = 1 THEN parts[1]
    ELSE parts[1] \o sep \o join(sep, Tail(parts))

\* re.split(r'[.!?]+', text): the pieces between maximal runs of terminators,
\* including an empty first or last piece
RECURSIVE re_split_from(_, _, _, _)
re_split_from(text, i, cur, acc) ==
    IF i > Len(text) THEN Append(acc, cur)
    ELSE IF IsTerminator(text[i])
         THEN IF i > 1 /\ IsTerminator(text[i - 1])
              THEN re_split_from(text, i + 1, cur, acc)
              ELSE re_split_from(text, i + 1, <<>>, Append(acc, cur))
         ELSE re_split_from(text, i + 1, Append(cur, text[i]), acc)

re_split(text) == re_split_from(text, 1, <<>>, <<>>)

\* len(sentence.split()): the number of maximal runs of non-whitespace
word_count(s) ==
    Cardinality({i \in 1..Len(s) :
                    /\ ~IsSpace(s[i])
                    /\ (i = 1 \/ IsSpace(s[i - 1]))})

\* [s.strip() for s in sentences if s.strip()]
RECURSIVE strip_nonempty(_)
strip_nonempty(pieces) ==
    IF Len(pieces) = 0 THEN <<>>
    ELSE IF Len(strip(pieces[1])) = 0 THEN strip_nonempty(Tail(pieces))
    ELSE <<strip(pieces[1])>> \o strip_nonempty(Tail(pieces))

(***************************************************************************)
(* chunk_text.  The result is [err, chunks]: err is TRUE when the code      *)
(* raises ValueError.                                                      *)
(***************************************************************************)
\* the test that ignores the length of the sentence to be added
fits_ignoring_sentence(current_length, sentence_length, chunk_size) ==
    current_length <= chunk_size

\* the test that closes a chunk as soon as it would become full
fits_strict(current_length, sentence_length, chunk_size) ==
    current_length + sentence_length < chunk_size

\* `if current_length + sentence_length <= chunk_size` (rag.py:99)
fits(current_length, sentence_length, chunk_size) ==
    current_length + sentence_length <= chunk_size

\* the flush that forgets the chunk it was to append
flush_dropped(current_chunk, chunks) == chunks

\* `if current_chunk: chunks.append(" ".join(current_chunk))` (rag.py:103, 108)
flush(current_chunk, chunks) ==
    IF Len(current_chunk) > 0
    THEN Append(chunks, join(<<" ">>, current_chunk))
    ELSE chunks

\* the packing loop over the sentences, then the final flush
RECURSIVE pack(_, _, _, _, _)
pack(sentences, i, chunk_size, current_chunk, chunks) ==
    IF i > Len(sentences)
    THEN flush(current_chunk, chunks)
    ELSE LET sentence == sentences[i]
             sentence_length == word_count(sentence)
             current_length ==
                 LET RECURSIVE total(_)
                     total(ss) == IF Len(ss) = 0 THEN 0
                                  ELSE word_count(ss[1]) + total(Tail(ss))
                 IN  total(current_chunk)
         IN  IF fits(current_length, sentence_length, chunk_size)
             THEN pack(sentences, i + 1, chunk_size,
                       Append(current_chunk, sentence), chunks)
             ELSE pack(sentences, i + 1, chunk_size, <<sentence>>,
                       flush(current_chunk, chunks))

\* the parameter test with the test of overlap left out
invalid_chunk_parameters_no_overlap(chunk_size, overlap) == chunk_size <= 0

\* `if chunk_size <= 0 or overlap < 0` (rag.py:82)
invalid_chunk_parameters(chunk_size, overlap) == chunk_size <= 0 \/ overlap < 0

\* the chunker that opens a chunk with the last `overlap` sentences of the
\* chunk it closed
chunk_text_carrying_overlap(text, chunk_size, overlap) ==
    IF IsBlank(text)
    THEN [err |-> TRUE, message |-> "Text cannot be empty", chunks |-> <<>>]
    ELSE IF chunk_size <= 0 \/ overlap < 0
    THEN [err |-> TRUE, message |-> "Invalid chunk parameters", chunks |-> <<>>]
    ELSE LET sentences == strip_nonempty(re_split(text))
             RECURSIVE total(_)
             total(ss) == IF Len(ss) = 0 THEN 0
                          ELSE word_count(ss[1]) + total(Tail(ss))
             carried(cur) ==
                 LET n == Len(cur)
                     k == IF overlap < n THEN overlap ELSE n
                 IN  SubSeq(cur, n - k + 1, n)
             RECURSIVE packed(_, _, _)
             packed(i, cur, acc) ==
                 IF i > Len(sentences)
                 THEN IF Len(cur) > 0 THEN Append(acc, join(<<" ">>, cur)) ELSE acc
                 ELSE IF total(cur) + word_count(sentences[i]) <= chunk_size
                 THEN packed(i + 1, Append(cur, sentences[i]), acc)
                 ELSE packed(i + 1, Append(carried(cur), sentences[i]),
                             IF Len(cur) > 0
                             THEN Append(acc, join(<<" ">>, cur)) ELSE acc)
             chunks == packed(1, <<>>, <<>>)
         IN  IF Len(chunks) = 0
             THEN [err |-> FALSE, message |-> "", chunks |-> <<text>>]
             ELSE [err |-> FALSE, message |-> "", chunks |-> chunks]

\* message is the text of the ValueError raised ("" when none is)
chunk_text(text, chunk_size, overlap) ==
    IF IsBlank(text)
    THEN [err |-> TRUE, message |-> "Text cannot be empty", chunks |-> <<>>]
    ELSE IF invalid_chunk_parameters(chunk_size, overlap)
    THEN [err |-> TRUE, message |-> "Invalid chunk parameters", chunks |-> <<>>]
    ELSE LET sentences == strip_nonempty(re_split(text))
         IN  IF Len(sentences) = 0
             THEN [err |-> FALSE, message |-> "", chunks |-> <<text>>]
             ELSE LET chunks == pack(sentences, 1, chunk_size, <<>>, <<>>)
                  IN  IF Len(chunks) = 0
                      THEN [err |-> FALSE, message |-> "", chunks |-> <<text>>]
                      ELSE [err |-> FALSE, message |-> "", chunks |-> chunks]


(***************************************************************************)
(* Inputs the handlers are driven with.                                    *)
(***************************************************************************)
\* "a-1" and "a_1" are distinct client ids; "b" is a third one; " " is blank
ClientIds == { <<"a", "-", "1">>, <<"a", "_", "1">>, <<"b">>, <<" ">> }

\* "d"; " " is blank
DocIds == { <<"d">>, <<" ">> }

\* "p q. r" (two chunks when CHUNK_SIZE = 2), "s" (one chunk), " " (blank)
Contents == { <<"p", " ", "q", ".", " ", "r">>, <<"s">>, <<" ">> }

\* the questions asked: "r" and the blank question
Queries == { <<"r">>, <<" ">> }

(***************************************************************************)
(* Python values returned to a caller: a str or None.                      *)
(***************************************************************************)
PyStr(s) == <<"str", s>>
PyNone == <<"NoneType", "None">>
IsStr(v) == v[1] = "str"

\* rag.py:154, 249, 286, 300
FALLBACK == PyStr("Sorry, I couldn't find that information.")
\* rag.py:234
NO_DOCUMENTS ==
    PyStr("Sorry, I couldn't find that information. No documents have been uploaded yet.")

(***************************************************************************)
(* The embedding model.  SentenceTransformer.encode is a deterministic     *)
(* function of the text; the model stands for it with a two-dimensional    *)
(* vector computed from the text.                                          *)
(***************************************************************************)
encode(text) == <<word_count(text), Len(text)>>

\* squared L2 distance, the default space of a Chroma collection
distance(u, v) ==
    (u[1] - v[1]) * (u[1] - v[1]) + (u[2] - v[2]) * (u[2] - v[2])

(***************************************************************************)
(* A Chroma collection: a function from record ids to records.             *)
(***************************************************************************)
Range(f) == {f[x] : x \in DOMAIN f}

EmptyCollection == [id \in {} |-> [document |-> <<>>, embedding |-> <<0, 0>>]]

\* collection.get(ids=...)['ids']: the ids among `ids` that are stored
coll_get(coll, ids) == {id \in DOMAIN coll : id \in ids}

\* collection.delete(ids=...)
coll_delete(coll, ids) == [id \in (DOMAIN coll) \ ids |-> coll[id]]

\* collection.add(documents, embeddings, ids): an id already stored is
\* skipped (Chroma logs "Insert of existing embedding ID" and keeps the old
\* record)
coll_add(coll, ids, documents, embeddings) ==
    [id \in (DOMAIN coll) \cup Range(ids) |->
        IF id \in DOMAIN coll THEN coll[id]
        ELSE LET i == CHOOSE j \in 1..Len(ids) : ids[j] = id
             IN  [document |-> documents[i], embedding |-> embeddings[i]]]

\* collection.count()
coll_count(coll) == Cardinality(DOMAIN coll)

\* the sequences of n distinct elements of S
RECURSIVE Arrangements(_, _)
Arrangements(S, n) ==
    IF n = 0 THEN {<<>>}
    ELSE UNION {{<<x>> \o r : r \in Arrangements(S \ {x}, n - 1)} : x \in S}

\* collection.query(query_embeddings=[q], n_results=n)['ids'][0]: the n
\* nearest records by ascending distance; records at equal distance come
\* in either order
coll_query(coll, q, n) ==
    {r \in Arrangements(DOMAIN coll, n) :
        /\ \A i \in 1..(n - 1) :
              distance(coll[r[i]].embedding, q) <= distance(coll[r[i + 1]].embedding, q)
        /\ \A id \in (DOMAIN coll) \ Range(r) : \A i \in 1..n :
              distance(coll[r[i]].embedding, q) <= distance(coll[id].embedding, q)}

\* max written for min
Min2_max(a, b) == IF a <= b THEN b ELSE a

\* min(n_results, count) (rag.py:242)
Min2(a, b) == IF a <= b THEN a ELSE b

(***************************************************************************)
(* get_client_collection.                                                  *)
(***************************************************************************)
\* f"docs_{client_id.strip().replace(' ', '_').replace('-', '_')}"
collection_name(client_id) ==
    <<"d", "o", "c", "s", "_">> \o replace(replace(strip(client_id), " ", "_"), "-", "_")

\* chroma_client.get_or_create_collection(name): the store afterwards
get_or_create_collection(colls, name) ==
    IF name \in DOMAIN colls THEN colls
    ELSE [n \in (DOMAIN colls) \cup {name} |->
            IF n \in DOMAIN colls THEN colls[n] ELSE EmptyCollection]

\* [raised, colls]: raises on a blank client id or when the store fails
get_client_collection(colls, client_id, fault) ==
    IF IsBlank(client_id) \/ fault = "get_collection"
    THEN [raised |-> TRUE, colls |-> colls]
    ELSE [raised |-> FALSE,
          colls |-> get_or_create_collection(colls, collection_name(client_id))]

\* f"{doc_id}_{i}"
chunk_id(doc_id, i) == doc_id \o <<"_">> \o str(i)

\* [f"{doc_id}_{i}" for i in range(len(chunks))]
chunk_ids(doc_id, chunks) == [j \in 1..Len(chunks) |-> chunk_id(doc_id, j - 1)]

\* the lookup returning every stored id (collection.get() without ids and
\* without the prefix filter)
existing_ids_unfiltered(coll, doc_id) == DOMAIN coll

\* the existing-chunks filter of add_document and delete_document:
\* existing = collection.get(ids=[doc_id]);
\* [id for id in existing['ids'] if id.startswith(f"{doc_id}_")]
existing_ids(coll, doc_id) ==
    {id \in coll_get(coll, {doc_id}) : startswith(id, doc_id \o <<"_">>)}

\* embed_batch_texts(texts): [raised, calls, embeddings]
embed_batch_texts(texts, fault) ==
    IF Len(texts) = 0 THEN [raised |-> FALSE, calls |-> 0, embeddings |-> <<>>]
    ELSE IF fault = "embed" THEN [raised |-> TRUE, calls |-> 1, embeddings |-> <<>>]
    ELSE [raised |-> FALSE, calls |-> 1,
          embeddings |-> [j \in 1..Len(texts) |-> encode(texts[j])]]

\* embed_text(text): [raised, calls, embedding]
embed_text(text, fault) ==
    IF IsBlank(text) THEN [raised |-> TRUE, calls |-> 0, embedding |-> <<0, 0>>]
    ELSE IF fault = "embed" THEN [raised |-> TRUE, calls |-> 1, embedding |-> <<0, 0>>]
    ELSE [raised |-> FALSE, calls |-> 1, embedding |-> encode(text)]


\* chunk_text(content) with the defaults of the settings.  The results for
\* the contents of the model are tabulated once, any other content is chunked
\* on the spot
DefaultChunks == [content \in Contents |-> chunk_text(content, CHUNK_SIZE, CHUNK_OVERLAP)]

chunk_text_default(content) ==
    IF content \in DOMAIN DefaultChunks THEN DefaultChunks[content]
    ELSE chunk_text(content, CHUNK_SIZE, CHUNK_OVERLAP)

(***************************************************************************)
(* add_document.  `fault` names the external call that raises in this run  *)
(* ("none", "get_collection", "get", "embed", "add").  The result is       *)
(* [raised, failed_at, colls, chunks, embed_calls]: whether the call       *)
(* raised and at which stage, the store it leaves, the chunks it computed  *)
(* and the number of invocations of the embedding model.                   *)
(***************************************************************************)
\* the input validation with the test of doc_id left out
empty_input_unchecked_doc_id(client_id, doc_id, content) ==
    IsBlank(client_id) \/ IsBlank(content)

\* the three `if not x or len(x.strip()) == 0: raise ValueError` of add_document
empty_input(client_id, doc_id, content) ==
    IsBlank(client_id) \/ IsBlank(doc_id) \/ IsBlank(content)

add_document(colls, client_id, doc_id, content, fault) ==
    IF empty_input(client_id, doc_id, content)
    THEN [raised |-> TRUE, failed_at |-> "validation", colls |-> colls,
          chunks |-> <<>>, embed_calls |-> 0]
    ELSE
    LET got == get_client_collection(colls, client_id, fault) IN
    IF got.raised
    THEN [raised |-> TRUE, failed_at |-> "get_collection", colls |-> colls,
          chunks |-> <<>>, embed_calls |-> 0]
    ELSE
    LET name == collection_name(client_id)
        colls1 == got.colls
    IN
    IF fault = "get"
    THEN [raised |-> TRUE, failed_at |-> "get", colls |-> colls1,
          chunks |-> <<>>, embed_calls |-> 0]
    ELSE
    LET old == existing_ids(colls1[name], doc_id)
        colls2 == IF old # {}
                  THEN [colls1 EXCEPT ![name] = coll_delete(@, old)]
                  ELSE colls1
        chunked == chunk_text_default(content)
    IN
    IF chunked.err
    THEN [raised |-> TRUE, failed_at |-> "chunk", colls |-> colls2,
          chunks |-> <<>>, embed_calls |-> 0]
    ELSE
    LET chunks == chunked.chunks
        embedded == embed_batch_texts(chunks, fault)
    IN
    IF embedded.raised
    THEN [raised |-> TRUE, failed_at |-> "embed", colls |-> colls2,
          chunks |-> chunks, embed_calls |-> embedded.calls]
    ELSE IF fault = "add"
    THEN [raised |-> TRUE, failed_at |-> "add", colls |-> colls2,
          chunks |-> chunks, embed_calls |-> embedded.calls]
    ELSE [raised |-> FALSE, failed_at |-> "none",
          colls |-> [colls2 EXCEPT ![name] =
                        coll_add(@, chunk_ids(doc_id, chunks), chunks,
                                 embedded.embeddings)],
          chunks |-> chunks,
          embed_calls |-> embedded.calls]

(***************************************************************************)
(* delete_document: [raised, colls, deleted].                              *)
(***************************************************************************)
delete_document(colls, client_id, doc_id, fault) ==
    IF IsBlank(client_id) \/ IsBlank(doc_id)
    THEN [raised |-> TRUE, colls |-> colls, deleted |-> 0]
    ELSE
    LET got == get_client_collection(colls, client_id, fault) IN
    IF got.raised
    THEN [raised |-> TRUE, colls |-> colls, deleted |-> 0]
    ELSE
    LET name == collection_name(client_id)
        colls1 == got.colls
    IN
    IF fault = "get"
    THEN [raised |-> TRUE, colls |-> colls1, deleted |-> 0]
    ELSE
    LET old == existing_ids(colls1[name], doc_id) IN
    [raised |-> FALSE,
     colls |-> IF old # {}
               THEN [colls1 EXCEPT ![name] = coll_delete(@, old)]
               ELSE colls1,
     deleted |-> Cardinality(old)]

(***************************************************************************)
(* get_client_stats: [raised, colls, document_count].                      *)
(***************************************************************************)
get_client_stats(colls, client_id, fault) ==
    LET got == get_client_collection(colls, client_id, fault) IN
    IF IsBlank(client_id) \/ got.raised
    THEN [raised |-> TRUE, colls |-> colls, document_count |-> 0]
    ELSE IF fault = "count"
    THEN [raised |-> TRUE, colls |-> got.colls, document_count |-> 0]
    ELSE [raised |-> FALSE, colls |-> got.colls,
          document_count |-> coll_count(got.colls[collection_name(client_id)])]

(***************************************************************************)
(* call_llm_async.  `reply` is what the HTTP request to the generation     *)
(* backend came to:                                                        *)
(*   "ok"              status 200, body {"response": "<text>"}             *)
(*   "status"          a status other than 200                             *)
(*   "timeout"         no answer within the 15 s ClientTimeout             *)
(*   "connection"      the connection failed                               *)
(*   "bad_json"        status 200, body is not JSON                        *)
(*   "no_response_key" status 200, JSON object without "response"          *)
(*   "response_null"   status 200, body {"response": null}                 *)
(***************************************************************************)
Replies == {"ok", "status", "timeout", "connection", "bad_json",
            "no_response_key", "response_null"}

\* the text the backend generates
GENERATED == PyStr("generated answer")

\* response.status == 200
status_is_200(reply) == reply \in {"ok", "bad_json", "no_response_key", "response_null"}

\* `result = await response.json(); return result["response"]` returns
\* instead of raising
payload_has_response(reply) == reply \in {"ok", "response_null"}

call_llm_async(reply) ==
    IF reply \in {"timeout", "connection"} THEN FALLBACK
    ELSE IF status_is_200(reply)
         THEN IF payload_has_response(reply)
              THEN IF reply = "ok" THEN GENERATED ELSE PyNone
              ELSE FALLBACK
         ELSE FALLBACK


(***************************************************************************)
(* State.                                                                  *)
(*   collections  the persistent Chroma store: collection name -> records  *)
(*   pending      the /ask requests suspended at `await call_llm_async`    *)
(*   last         what the last handler step was called with, did and      *)
(*                returned                                                 *)
(*   chunker      a direct call of chunk_text: its arguments, and once it  *)
(*                has returned, its outcome                                *)
(* and, for the requests seen at the grain of the threads that run them:   *)
(*   tasks        request -> its kind ("ask", "upload") and the place its  *)
(*                coroutine has reached                                    *)
(*   loop         the request whose coroutine the event loop thread is     *)
(*                running, 0 when the event loop is free                   *)
(*   workers      the requests whose work a thread of `executor` is        *)
(*                running                                                  *)
(*   embedder     the lru_cache of get_embedder and the number of models   *)
(*                constructed                                              *)
(*   health       the GET /health requests served                          *)
(* and, for the service around the rag functions:                          *)
(*   gateway      call of call_llm_async -> the place it has reached and   *)
(*                the HTTP requests it has issued                          *)
(*   db           the SQLite database: the tables clients, api_keys,       *)
(*                usage_stats and documents, and whether the SQLite        *)
(*                library enforces foreign keys on a new connection        *)
(*   now          the clock (datetime.now()), in reset periods             *)
(*   asks         POST /ask request -> the place its handler has reached   *)
(*   http         the last HTTP request answered: its route, the client id *)
(*                it named, the API key it presented and its status; seq   *)
(*                is the parity of the number of /ask requests answered    *)
(***************************************************************************)
VARIABLES collections, pending, last, chunker, tasks, loop, workers, embedder, health, gateway, db, now, asks, http

vars == <<collections, pending, last, chunker, tasks, loop, workers, embedder, health, gateway, db, now, asks, http>>

threads == <<tasks, loop, workers, embedder, health>>

service == <<gateway, db, now, asks, http>>

\* the state that the rag functions leave alone
units == <<chunker, threads, service>>

NoCollections == [n \in {} |-> EmptyCollection]

\* op           the function that ran
\* client_id, doc_id, text   its arguments (text: the content or the question)
\* failed_at    "none", or the stage at which an exception was raised inside
\*              it ("llm": the backend did not answer 200 with a
\*              {"response": <str>} payload)
\* raised       it raised to its caller
\* result       the value it returned
\* chunks_created, embed_calls, llm_calls   what it counted
\* ids          the record ids the retrieval returned, nearest first
Obs(op, client_id, doc_id, text, failed_at, raised, result, created, embeds, llms, ids) ==
    [op |-> op, client_id |-> client_id, doc_id |-> doc_id, text |-> text,
     failed_at |-> failed_at, raised |-> raised, result |-> result,
     chunks_created |-> created, embed_calls |-> embeds,
     llm_calls |-> llms, ids |-> ids]

RAISED == <<"raise", "Exception">>

\* chunk_text is not being called
NoCall == [pc |-> "idle", text |-> <<>>, chunk_size |-> 0, overlap |-> 0,
           err |-> FALSE, message |-> "", chunks |-> <<>>]

\* no request is followed thread by thread
NoTasks == [c \in {} |-> [kind |-> "ask", pc |-> "waiting"]]

\* get_embedder has never been called
ColdEmbedder == [cached |-> FALSE, constructions |-> 0]

NoThreads ==
    /\ tasks = NoTasks
    /\ loop = 0
    /\ workers = {}
    /\ embedder = ColdEmbedder
    /\ health = 0

\* no call of call_llm_async is followed request by request
NoGateway == [c \in {} |-> [pc |-> "idle", calls |-> 0, requests |-> 0]]

\* the database after init_database: the four tables, empty
NoDb == [foreign_keys |-> FALSE,
         clients |-> [c \in {} |-> [status |-> "active"]],
         api_keys |-> {},
         usage_stats |-> [c \in {} |-> [requests_this_month |-> 0]],
         documents |-> {}]

\* no POST /ask is followed step by step
NoAsks == [c \in {} |-> [pc |-> "idle"]]

\* no HTTP request has been answered
NoHttp == [op |-> "start", client_id |-> <<>>, key |-> "none", status |-> 0, seq |-> 0]

NoService ==
    /\ gateway = NoGateway
    /\ db = NoDb
    /\ now = 0
    /\ asks = NoAsks
    /\ http = NoHttp

Init ==
    /\ collections = NoCollections
    /\ pending = <<>>
    /\ last = Obs("start", <<>>, <<>>, <<>>, "none", FALSE, PyNone, 0, 0, 0, <<>>)
    /\ chunker = NoCall
    /\ NoThreads
    /\ NoService

AddDocumentFaults == {"none", "get_collection", "get", "embed", "add"}

\* POST /upload, POST /upload-pdf: add_document runs to completion on the
\* event loop (a synchronous call inside an async handler)
AddDocument(client_id, doc_id, content, fault) ==
    LET r == add_document(collections, client_id, doc_id, content, fault) IN
    /\ collections' = r.colls
    /\ last' = Obs("add_document", client_id, doc_id, content, r.failed_at, r.raised,
                   IF r.raised THEN RAISED ELSE <<"dict", "chunks_created">>,
                   Len(r.chunks), r.embed_calls, 0, <<>>)
    /\ UNCHANGED <<pending, units>>

DeleteFaults == {"none", "get_collection", "get"}

\* DELETE /documents/{client_id}/{doc_id}: delete_document, synchronous
DeleteDocument(client_id, doc_id, fault) ==
    LET r == delete_document(collections, client_id, doc_id, fault) IN
    /\ collections' = r.colls
    /\ last' = Obs("delete_document", client_id, doc_id, <<>>,
                   IF r.raised THEN "store" ELSE "none", r.raised,
                   IF r.raised THEN RAISED ELSE <<"dict", "deleted successfully">>,
                   0, 0, 0, <<>>)
    /\ UNCHANGED <<pending, units>>

StatsFaults == {"none", "get_collection", "count"}

\* GET /stats/{client_id}: get_client_stats, synchronous
GetClientStats(client_id, fault) ==
    LET r == get_client_stats(collections, client_id, fault) IN
    /\ collections' = r.colls
    /\ last' = Obs("get_client_stats", client_id, <<>>, <<>>,
                   IF r.raised THEN "store" ELSE "none", r.raised,
                   IF r.raised THEN RAISED ELSE <<"dict", r.document_count>>,
                   0, 0, 0, <<>>)
    /\ UNCHANGED <<pending, units>>

QueryFaults == {"none", "get_collection", "count", "embed", "query"}

\* the emptiness test written so that it never holds of a count
no_documents_never(count) == count < 0

\* `if count == 0` (rag.py:232)
no_documents(count) == count = 0

\* the context made of the nearest document alone
build_context_first(documents) == documents[1]

\* context = "\n".join(documents) (rag.py:252)
build_context(documents) == join(<<"\n">>, documents)

\* the f-string of rag.py:255-274; the fixed parts of the template are single
\* elements of the sequence
prompt(context, user_query) ==
    <<"\nYou are a friendly and helpful assistant. [...]\n\nContext:\n">>
        \o context \o <<"\n\nQuestion:\n">> \o user_query \o <<"\n\nAnswer:\n">>

\* query_rag_async returns without reaching the generation call
QueryReturn(client_id, user_query, colls2, failed_at, result, embed_calls) ==
    /\ collections' = colls2
    /\ last' = Obs("query_rag_async", client_id, <<>>, user_query, failed_at, FALSE,
                   result, 0, embed_calls, 0, <<>>)
    /\ UNCHANGED <<pending, units>>

\* query_rag_async from its entry to `await call_llm_async(prompt)` or to an
\* earlier return; an exception anywhere is caught and becomes the fallback
QueryBegin(client_id, user_query, n_results, fault) ==
    IF IsBlank(client_id) \/ IsBlank(user_query)
    THEN QueryReturn(client_id, user_query, collections, "validation", FALLBACK, 0)
    ELSE
    LET got == get_client_collection(collections, client_id, fault) IN
    IF got.raised
    THEN QueryReturn(client_id, user_query, collections, "get_collection", FALLBACK, 0)
    ELSE
    LET collection == got.colls[collection_name(client_id)]
        count == coll_count(collection)
    IN
    IF fault = "count"
    THEN QueryReturn(client_id, user_query, got.colls, "count", FALLBACK, 0)
    ELSE IF no_documents(count)
    THEN QueryReturn(client_id, user_query, got.colls, "none", NO_DOCUMENTS, 0)
    ELSE
    LET embedded == embed_text(user_query, fault) IN
    IF embedded.raised
    THEN QueryReturn(client_id, user_query, got.colls, "embed", FALLBACK, embedded.calls)
    ELSE IF fault = "query"
    THEN QueryReturn(client_id, user_query, got.colls, "query", FALLBACK, embedded.calls)
    ELSE
    \E ids \in coll_query(collection, embedded.embedding, Min2(n_results, count)) :
        LET documents == [j \in 1..Len(ids) |-> collection[ids[j]].document] IN
        IF Len(documents) = 0
        THEN QueryReturn(client_id, user_query, got.colls, "none", FALLBACK,
                         embedded.calls)
        ELSE /\ Len(pending) < MaxPending
             /\ collections' = got.colls
             /\ pending' = Append(pending,
                                  [client_id |-> client_id,
                                   user_query |-> user_query,
                                   n_results |-> n_results,
                                   ids |-> ids,
                                   context |-> build_context(documents),
                                   prompt |-> prompt(build_context(documents),
                                                     user_query),
                                   embed_calls |-> embedded.calls])
             /\ last' = Obs("await call_llm_async", client_id, <<>>, user_query,
                            "none", FALSE, PyNone, 0, embedded.calls, 0, ids)
             /\ UNCHANGED units

\* the generation backend answers (or fails to) the request of the i-th
\* suspended query; call_llm_async returns and query_rag_async returns its value
QueryEnd(i, reply) ==
    /\ i \in 1..Len(pending)
    /\ LET req == pending[i] IN
       last' = Obs("query_rag_async", req.client_id, <<>>, req.user_query,
                   IF reply = "ok" THEN "none" ELSE "llm", FALSE,
                   call_llm_async(reply), 0, req.embed_calls,
                   1, req.ids)
    /\ pending' = [j \in 1..(Len(pending) - 1) |->
                      IF j < i THEN pending[j] ELSE pending[j + 1]]
    /\ UNCHANGED <<collections, units>>

Next ==
    \/ \E c \in ClientIds, d \in DocIds, t \in Contents, f \in AddDocumentFaults :
          AddDocument(c, d, t, f)
    \/ \E c \in ClientIds, d \in DocIds, f \in DeleteFaults :
          DeleteDocument(c, d, f)
    \/ \E c \in ClientIds, f \in StatsFaults :
          GetClientStats(c, f)
    \/ \E c \in ClientIds, q \in Queries, f \in QueryFaults :
          QueryBegin(c, q, N_RESULTS, f)
    \/ \E i \in 1..MaxPending, r \in Replies :
          QueryEnd(i, r)

Spec == Init /\ [][Next]_vars

(***************************************************************************)
(* The ingests alone: add_document with every client id, doc id, content   *)
(* and failing call, and get_client_stats, which creates the collections   *)
(* of tenants without documents.                                           *)
(***************************************************************************)
IngestNext ==
    \/ \E c \in ClientIds, d \in DocIds, t \in Contents, f \in AddDocumentFaults :
          AddDocument(c, d, t, f)
    \/ \E c \in ClientIds :
          GetClientStats(c, "none")

IngestSpec == Init /\ [][IngestNext]_vars

(***************************************************************************)
(* Retrieval with a chosen n_results.  POST /ask always asks for the       *)
(* default; query_rag_async and query_rag take n_results as a parameter.   *)
(* This specification calls query_rag_async with every n_results in        *)
(* 1..MaxK on one tenant that holds up to three chunks in two documents.   *)
(***************************************************************************)
\* the largest n_results asked for
MaxK == 4

RetrievalClientIds == { <<"b">> }

\* "d" and "e"
RetrievalDocIds == { <<"d">>, <<"e">> }

RetrievalContents == { <<"p", " ", "q", ".", " ", "r">>, <<"s">> }

\* the documents ingested: "d" with the content "p q. r" (two chunks) and
\* "e" with the content "s" (one chunk)
RetrievalDocuments ==
    { << <<"d">>, <<"p", " ", "q", ".", " ", "r">> >>, << <<"e">>, <<"s">> >> }

RetrievalNext ==
    \/ \E c \in RetrievalClientIds, doc \in RetrievalDocuments :
          AddDocument(c, doc[1], doc[2], "none")
    \/ \E c \in RetrievalClientIds, q \in Queries, n \in 1..MaxK :
          QueryBegin(c, q, n, "none")
    \/ \E i \in 1..MaxPending, r \in Replies :
          QueryEnd(i, r)

RetrievalSpec == Init /\ [][RetrievalNext]_vars

(***************************************************************************)
(* Ingests and deletions of two documents of each of two tenants, the       *)
(* store reachable.                                                        *)
(***************************************************************************)
\* "b" and "a-1"
DeletionClientIds == { <<"b">>, <<"a", "-", "1">> }

DeletionNext ==
    \/ \E c \in DeletionClientIds, d \in RetrievalDocIds, t \in RetrievalContents :
          AddDocument(c, d, t, "none")
    \/ \E c \in DeletionClientIds, d \in RetrievalDocIds :
          DeleteDocument(c, d, "none")
    \/ \E c \in DeletionClientIds :
          GetClientStats(c, "none")

DeletionSpec == Init /\ [][DeletionNext]_vars

(***************************************************************************)
(* Ingests and deletions of the documents "a" and "a_1" (the id of the     *)
(* second begins with the id of the first and an underscore, and is the id *)
(* of chunk 1 of the first) for the tenants "a-1", "a_1" and "b".          *)
(***************************************************************************)
\* "a-1", "a_1" and "b"
FrameClientIds == { <<"a", "-", "1">>, <<"a", "_", "1">>, <<"b">> }

\* "a" and "a_1"
FrameDocIds == { <<"a">>, <<"a", "_", "1">> }

FrameNext ==
    \/ \E c \in FrameClientIds, d \in FrameDocIds, t \in RetrievalContents :
          AddDocument(c, d, t, "none")
    \/ \E c \in FrameClientIds, d \in FrameDocIds :
          DeleteDocument(c, d, "none")

FrameSpec == Init /\ [][FrameNext]_vars


(***************************************************************************)
(* Direct calls of chunk_text(text, chunk_size, overlap) with every text   *)
(* of at most MaxTextLen characters over letters, the space and the full   *)
(* stop, every chunk_size in 0..MaxChunkSize and overlap in -1..1.         *)
(***************************************************************************)
\* the longest text chunked
MaxTextLen == 5

\* the largest chunk_size passed
MaxChunkSize == 3

ChunkAlphabet == {"a", "b", " ", "."}

ChunkTexts == UNION {[1..n -> ChunkAlphabet] : n \in 0..MaxTextLen}

ChunkSizes == 0..MaxChunkSize

Overlaps == (0 - 1)..1

ChunkInit ==
    /\ collections = NoCollections
    /\ pending = <<>>
    /\ last = Obs("start", <<>>, <<>>, <<>>, "none", FALSE, PyNone, 0, 0, 0, <<>>)
    /\ chunker \in {[NoCall EXCEPT !.pc = "call", !.text = t,
                                    !.chunk_size = n, !.overlap = o] :
                        t \in ChunkTexts, n \in ChunkSizes, o \in Overlaps}
    /\ NoThreads
    /\ NoService

\* chunk_text runs from its call to its return or its raise
ChunkText ==
    /\ chunker.pc = "call"
    /\ LET r == chunk_text(chunker.text, chunker.chunk_size, chunker.overlap) IN
       chunker' = [chunker EXCEPT !.pc = "done", !.err = r.err,
                                  !.message = r.message, !.chunks = r.chunks]
    /\ UNCHANGED <<collections, pending, last, threads, service>>

ChunkNext == ChunkText

ChunkSpec == ChunkInit /\ [][ChunkNext]_vars

(***************************************************************************)
(* The requests at the grain of the threads.  uvicorn.run (main.py) serves *)
(* the application in one process on one event loop thread.  Every handler *)
(* is an `async def` that calls add_document or, in query_rag_async,       *)
(* embed_text directly: chunk_text, get_embedder and embedder.encode run   *)
(* on the event loop thread, and the coroutine keeps that thread from its  *)
(* start to its return or its first await.  Nothing is ever submitted to   *)
(* `executor` (rag.py:18).                                                 *)
(*                                                                         *)
(* MaxCallers requests, each an /ask or an /upload that gets as far as the *)
(* embedding, have all arrived before the first of them runs (cold start). *)
(***************************************************************************)
\* the concurrent requests
MaxCallers == 3

\* the GET /health requests served
MaxHealth == 2

Callers == 1..MaxCallers

\* ThreadPoolExecutor(max_workers=4)
max_workers == 4

\* the stages of a request that are CPU-bound
CpuBound == {"chunk", "get_embedder", "construct", "encode"}

\* the cache of get_embedder that never holds a model (the decorator left out)
cache_never_hit(cache) == FALSE

\* lru_cache(maxsize=1) of the argument-less get_embedder: a hit once a call
\* has returned
cache_hit(cache) == cache.cached

ThreadsInit ==
    /\ collections = NoCollections
    /\ pending = <<>>
    /\ last = Obs("start", <<>>, <<>>, <<>>, "none", FALSE, PyNone, 0, 0, 0, <<>>)
    /\ chunker = NoCall
    /\ tasks \in [Callers -> {[kind |-> k, pc |-> "waiting"] : k \in {"ask", "upload"}}]
    /\ loop = 0
    /\ workers = {}
    /\ embedder = ColdEmbedder
    /\ health = 0
    /\ NoService

Frame == UNCHANGED <<collections, pending, last, chunker, service>>

\* the event loop picks the coroutine of request c and runs it up to
\* chunk_text (upload) or to embed_text (ask)
Start(c) ==
    /\ loop = 0
    /\ tasks[c].pc = "waiting"
    /\ loop' = c
    /\ tasks' = [tasks EXCEPT ![c].pc =
                    IF tasks[c].kind = "upload" THEN "chunk" ELSE "get_embedder"]
    /\ UNCHANGED <<workers, embedder, health>>
    /\ Frame

\* add_document: chunks = chunk_text(content), then embed_batch_texts(chunks)
ChunkContent(c) ==
    /\ loop = c
    /\ tasks[c].pc = "chunk"
    /\ tasks' = [tasks EXCEPT ![c].pc = "get_embedder"]
    /\ UNCHANGED <<loop, workers, embedder, health>>
    /\ Frame

\* embedder = get_embedder(): the lru_cache wrapper looks the call up
GetEmbedder(c) ==
    /\ loop = c
    /\ tasks[c].pc = "get_embedder"
    /\ tasks' = [tasks EXCEPT ![c].pc =
                    IF cache_hit(embedder) THEN "encode" ELSE "construct"]
    /\ UNCHANGED <<loop, workers, embedder, health>>
    /\ Frame

\* SentenceTransformer(settings.EMBEDDING_MODEL, device="cpu") returns and
\* the wrapper stores the model, or raises and nothing is stored: the
\* exception goes up to the handler, which answers and returns
Construct(c, ok) ==
    /\ loop = c
    /\ tasks[c].pc = "construct"
    /\ IF ok
       THEN /\ embedder' = [cached |-> TRUE,
                            constructions |-> embedder.constructions + 1]
            /\ tasks' = [tasks EXCEPT ![c].pc = "encode"]
            /\ loop' = loop
       ELSE /\ embedder' = embedder
            /\ tasks' = [tasks EXCEPT ![c].pc = "failed"]
            /\ loop' = 0
    /\ UNCHANGED <<workers, health>>
    /\ Frame

\* embedder.encode(...); afterwards the coroutine runs on to its return
\* (upload) or to `await call_llm_async` (ask) and gives up the event loop
Encode(c) ==
    /\ loop = c
    /\ tasks[c].pc = "encode"
    /\ tasks' = [tasks EXCEPT ![c].pc = "done"]
    /\ loop' = 0
    /\ UNCHANGED <<workers, embedder, health>>
    /\ Frame

\* GET /health: a coroutine without any blocking call
HealthCheck ==
    /\ loop = 0
    /\ health < MaxHealth
    /\ health' = health + 1
    /\ UNCHANGED <<tasks, loop, workers, embedder>>
    /\ Frame

ThreadsNext ==
    \/ \E c \in Callers : Start(c)
    \/ \E c \in Callers : ChunkContent(c)
    \/ \E c \in Callers : GetEmbedder(c)
    \/ \E c \in Callers, ok \in BOOLEAN : Construct(c, ok)
    \/ \E c \in Callers : Encode(c)
    \/ HealthCheck

ThreadsSpec == ThreadsInit /\ [][ThreadsNext]_vars

(***************************************************************************)
(* The generation gateway at the grain of its HTTP requests.  Each of the  *)
(* Callers is a query_rag_async that has built its prompt.  It calls       *)
(* call_llm_async once (rag.py:277); call_llm_async opens a session and    *)
(* issues one session.post (rag.py:137-146); the backend answers, fails or *)
(* times out; call_llm_async returns the generated text or, from its       *)
(* except clause, the fallback (rag.py:147-154), and query_rag_async       *)
(* returns that value (rag.py:279-282).                                    *)
(***************************************************************************)
\* a gateway that issues the request again until the backend answers
retries_on_failure(reply) == reply # "ok"

\* neither call_llm_async nor query_rag_async has a loop around the request:
\* whatever the reply, the request is not issued again
retries(reply) == FALSE

GatewayInit ==
    /\ collections = NoCollections
    /\ pending = <<>>
    /\ last = Obs("start", <<>>, <<>>, <<>>, "none", FALSE, PyNone, 0, 0, 0, <<>>)
    /\ chunker = NoCall
    /\ NoThreads
    /\ gateway = [c \in Callers |-> [pc |-> "idle", calls |-> 0, requests |-> 0,
                                     reply |-> "none", result |-> PyNone]]
    /\ db = NoDb
    /\ now = 0
    /\ asks = NoAsks
    /\ http = NoHttp

GatewayFrame ==
    UNCHANGED <<collections, pending, last, chunker, threads, db, now, asks, http>>

\* `answer = await call_llm_async(prompt)`: call_llm_async is entered
Generate(c) ==
    /\ gateway[c].pc = "idle"
    /\ gateway' = [gateway EXCEPT ![c].pc = "session",
                                  ![c].calls = gateway[c].calls + 1]
    /\ GatewayFrame

\* `async with session.post(...)`: the request is sent to the backend
Post(c) ==
    /\ gateway[c].pc = "session"
    /\ gateway' = [gateway EXCEPT ![c].pc = "posted",
                                  ![c].requests = gateway[c].requests + 1]
    /\ GatewayFrame

\* the request comes to `reply`; call_llm_async returns
Respond(c, reply) ==
    /\ gateway[c].pc = "posted"
    /\ gateway' = [gateway EXCEPT
                      ![c].pc = IF retries(reply) THEN "session" ELSE "returned",
                      ![c].reply = reply,
                      ![c].result = call_llm_async(reply)]
    /\ GatewayFrame

\* query_rag_async returns the answer
Answer(c) ==
    /\ gateway[c].pc = "returned"
    /\ gateway' = [gateway EXCEPT ![c].pc = "answered"]
    /\ GatewayFrame

GatewayNext ==
    \/ \E c \in Callers : Generate(c)
    \/ \E c \in Callers : Post(c)
    \/ \E c \in Callers, r \in Replies : Respond(c, r)
    \/ \E c \in Callers : Answer(c)

GatewaySpec == GatewayInit /\ [][GatewayNext]_vars

(***************************************************************************)
(* The client database (database.py) and the ClientManager over it         *)
(* (client_manager_sqlite.py).  A table with a primary key is a function   *)
(* from the key to the row, the other tables are sets of rows; of a row    *)
(* the model keeps the columns that the code reads.  Every statement runs  *)
(* on a connection of its own, opened by get_connection with               *)
(* sqlite3.connect and nothing else: the foreign keys declared by          *)
(* init_database are enforced only when the SQLite library was built to    *)
(* enforce them by default (PRAGMA foreign_keys is never executed), which  *)
(* db.foreign_keys records.  Client ids and API keys are random hex        *)
(* strings (secrets.token_hex): an id once used is not generated again.    *)
(***************************************************************************)
\* the client ids in the database: "b" and "c"
DbClients == { <<"b">>, <<"c">> }

\* the API key values
ApiKeys == {"k1", "k2"}

\* the doc ids of the documents table
DbDocs == { <<"d">> }

\* max_requests_per_month of the finite plan of the model
MaxRequests == 2

\* max_documents of the finite plan of the model
MaxDocuments == 2

\* the latest time the clock reaches
MaxNow == 2

\* timedelta(days=30), the unit of the clock
Period == 1

\* self.plans: a finite plan and the unlimited one
plans ==
    [free |-> [max_documents |-> MaxDocuments, max_requests_per_month |-> MaxRequests],
     enterprise |-> [max_documents |-> 0 - 1, max_requests_per_month |-> 0 - 1]]

PlanTypes == {"free", "enterprise"}

\* ClientManager.create_client: the clients row and the usage_stats row
create_client(d, client_id, plan_type, t) ==
    [d EXCEPT
        !.clients = (client_id :> [status |-> "active",
                                   max_documents |-> plans[plan_type].max_documents,
                                   max_requests_per_month |->
                                       plans[plan_type].max_requests_per_month])
                    @@ d.clients,
        !.usage_stats = (client_id :> [total_documents |-> 0,
                                       requests_this_month |-> 0,
                                       monthly_reset |-> t + Period])
                        @@ d.usage_stats]

\* ClientManager.create_api_key: None (no row) when the client does not exist
create_api_key(d, client_id, api_key) ==
    IF client_id \notin DOMAIN d.clients THEN d
    ELSE [d EXCEPT !.api_keys = d.api_keys \cup
             {[api_key |-> api_key, client_id |-> client_id, is_active |-> TRUE]}]

\* ClientManager.revoke_api_key: UPDATE api_keys SET is_active = 0
revoke_api_key(d, api_key) ==
    [d EXCEPT !.api_keys =
        {[r EXCEPT !.is_active = IF r.api_key = api_key THEN FALSE ELSE r.is_active] :
            r \in d.api_keys}]

\* DocumentsDB.create_document: INSERT OR REPLACE; [raised, db].  With the
\* foreign keys enforced a row that names no client is refused
create_document(d, client_id, doc_id) ==
    IF d.foreign_keys /\ client_id \notin DOMAIN d.clients
    THEN [raised |-> TRUE, db |-> d]
    ELSE [raised |-> FALSE,
          db |-> [d EXCEPT !.documents = d.documents \cup
                     {[client_id |-> client_id, doc_id |-> doc_id]}]]

\* ClientManager.delete_client -> ClientDB.delete_client:
\* DELETE FROM clients WHERE client_id = ?; [ok, db], ok = rowcount > 0.
\* The rows of the other tables go only by ON DELETE CASCADE
delete_client(d, client_id) ==
    IF client_id \notin DOMAIN d.clients THEN [ok |-> FALSE, db |-> d]
    ELSE LET left == [c \in (DOMAIN d.clients) \ {client_id} |-> d.clients[c]] IN
         [ok |-> TRUE,
          db |-> IF d.foreign_keys
                 THEN [d EXCEPT
                         !.clients = left,
                         !.api_keys = {r \in d.api_keys : r.client_id # client_id},
                         !.usage_stats = [c \in (DOMAIN d.usage_stats) \ {client_id} |->
                                             d.usage_stats[c]],
                         !.documents = {r \in d.documents : r.client_id # client_id}]
                 ELSE [d EXCEPT !.clients = left]]

\* ClientManager.get_client_by_api_key: verify_api_key (the key exists and
\* is active; the keys of the model do not expire) and then get_client
get_client_by_api_key(d, api_key) ==
    LET rows == {r \in d.api_keys : r.api_key = api_key /\ r.is_active} IN
    IF rows = {} THEN [found |-> FALSE, client_id |-> <<>>]
    ELSE LET r == CHOOSE x \in rows : TRUE IN
         IF r.client_id \in DOMAIN d.clients
         THEN [found |-> TRUE, client_id |-> r.client_id]
         ELSE [found |-> FALSE, client_id |-> <<>>]

\* the dependency verify_api_key of app.py: [status, client_id], status 200
\* when the request goes on to the handler.  authorization "none" is a
\* request without the header
verify_api_key(d, authorization) ==
    IF authorization = "none" THEN [status |-> 401, client_id |-> <<>>]
    ELSE LET client == get_client_by_api_key(d, authorization) IN
         IF ~client.found THEN [status |-> 401, client_id |-> <<>>]
         ELSE IF d.clients[client.client_id].status # "active"
         THEN [status |-> 403, client_id |-> <<>>]
         ELSE [status |-> 200, client_id |-> client.client_id]

\* ClientManager.check_limits: within_limits
check_limits(d, client_id) ==
    IF client_id \notin DOMAIN d.clients \/ client_id \notin DOMAIN d.usage_stats
    THEN FALSE
    ELSE LET client == d.clients[client_id]
             usage == d.usage_stats[client_id]
         IN  IF client.status # "active" THEN FALSE
             ELSE IF client.max_documents # 0 - 1
                     /\ usage.total_documents >= client.max_documents
             THEN FALSE
             ELSE IF client.max_requests_per_month # 0 - 1
                     /\ usage.requests_this_month >= client.max_requests_per_month
             THEN FALSE
             ELSE TRUE

\* ClientManager.track_request at time t: increment_requests, then the
\* monthly reset when the reset date has passed
track_request(d, client_id, t) ==
    IF client_id \notin DOMAIN d.usage_stats THEN d
    ELSE LET usage == d.usage_stats[client_id]
             incremented == [usage EXCEPT !.requests_this_month = @ + 1]
         IN  [d EXCEPT !.usage_stats[client_id] =
                 IF t > usage.monthly_reset
                 THEN [incremented EXCEPT !.requests_this_month = 1,
                                          !.monthly_reset = t + Period]
                 ELSE incremented]

\* ClientManager.track_document_upload: increment_documents
track_document_upload(d, client_id) ==
    IF client_id \notin DOMAIN d.usage_stats THEN d
    ELSE [d EXCEPT !.usage_stats[client_id].total_documents = @ + 1]

\* what a request was answered with
Answered(op, client_id, key, status) ==
    [op |-> op, client_id |-> client_id, key |-> key, status |-> status,
     seq |-> IF op = "ask" THEN 1 - http.seq ELSE http.seq]

\* the state of the rag functions, untouched by the database
NoRag ==
    /\ collections = NoCollections
    /\ pending = <<>>
    /\ last = Obs("start", <<>>, <<>>, <<>>, "none", FALSE, PyNone, 0, 0, 0, <<>>)
    /\ chunker = NoCall
    /\ NoThreads
    /\ gateway = NoGateway

RagFrame == UNCHANGED <<collections, pending, last, chunker, threads, gateway>>

(***************************************************************************)
(* The administration of the clients: clients, keys and documents rows are *)
(* created, keys revoked, and clients deleted through                      *)
(* DELETE /admin/clients/{client_id}.                                      *)
(***************************************************************************)
AdminInit ==
    /\ NoRag
    /\ db \in {[NoDb EXCEPT !.foreign_keys = fk] : fk \in BOOLEAN}
    /\ now = 0
    /\ asks = NoAsks
    /\ http = NoHttp

\* POST /admin/clients with a client id never used before
CreateClient(client_id, plan_type) ==
    /\ client_id \notin DOMAIN db.clients
    /\ client_id \notin DOMAIN db.usage_stats
    /\ \A r \in db.api_keys \cup db.documents : r.client_id # client_id
    /\ db' = create_client(db, client_id, plan_type, now)
    /\ http' = Answered("create_client", client_id, "admin", 200)
    /\ UNCHANGED <<now, asks>>
    /\ RagFrame

\* POST /admin/api-keys with a key value never used before
CreateApiKey(client_id, api_key) ==
    /\ \A r \in db.api_keys : r.api_key # api_key
    /\ db' = create_api_key(db, client_id, api_key)
    /\ http' = Answered("create_api_key", client_id, "admin",
                        IF client_id \in DOMAIN db.clients THEN 200 ELSE 404)
    /\ UNCHANGED <<now, asks>>
    /\ RagFrame

\* the revocation of a key
RevokeApiKey(api_key) ==
    /\ \E r \in db.api_keys : r.api_key = api_key
    /\ db' = revoke_api_key(db, api_key)
    /\ http' = Answered("revoke_api_key", <<>>, "admin", 200)
    /\ UNCHANGED <<now, asks>>
    /\ RagFrame

\* a call of DocumentsDB.create_document
CreateDocument(client_id, doc_id) ==
    LET r == create_document(db, client_id, doc_id) IN
    /\ db' = r.db
    /\ http' = Answered("create_document", client_id, "admin",
                        IF r.raised THEN 500 ELSE 200)
    /\ UNCHANGED <<now, asks>>
    /\ RagFrame

\* DELETE /admin/clients/{client_id}: 404 when get_client finds no client,
\* 200 when delete_client returns True
DeleteClient(client_id) ==
    LET r == delete_client(db, client_id) IN
    /\ db' = r.db
    /\ http' = Answered("delete_client", client_id, "admin",
                        IF r.ok THEN 200 ELSE 404)
    /\ UNCHANGED <<now, asks>>
    /\ RagFrame

AdminNext ==
    \/ \E c \in DbClients, p \in PlanTypes : CreateClient(c, p)
    \/ \E c \in DbClients, k \in ApiKeys : CreateApiKey(c, k)
    \/ \E k \in ApiKeys : RevokeApiKey(k)
    \/ \E c \in DbClients, d \in DbDocs : CreateDocument(c, d)
    \/ \E c \in DbClients : DeleteClient(c)

AdminSpec == AdminInit /\ [][AdminNext]_vars

(***************************************************************************)
(* POST /ask with its usage limits.  Client "b" is on the finite plan and  *)
(* holds key "k1", client "c" is on the unlimited plan and holds key "k2". *)
(* The handler runs on the event loop: from its start to                   *)
(* `await query_rag_async` (verify_api_key, the client id check,           *)
(* check_limits) without interruption, and again from the return of        *)
(* query_rag_async (which never raises) to the response (track_request).   *)
(* While one request awaits its answer the event loop runs the others.     *)
(***************************************************************************)
\* the API key each client was given
KeyOf == [c \in DbClients |-> IF c = <<"b">> THEN "k1" ELSE "k2"]

\* what a request can send as its Authorization header
Authorizations == ApiKeys \cup {"none"}

\* the counter of the unlimited plan is followed up to this value
MaxCount == MaxRequests + MaxCallers

QuotaDb ==
    create_api_key(
        create_api_key(
            create_client(create_client(NoDb, <<"b">>, "free", 0),
                          <<"c">>, "enterprise", 0),
            <<"b">>, KeyOf[<<"b">>]),
        <<"c">>, KeyOf[<<"c">>])

QuotaInit ==
    /\ NoRag
    /\ db = QuotaDb
    /\ now = 0
    /\ asks = [a \in Callers |-> [pc |-> "idle", client_id |-> <<>>, key |-> "none"]]
    /\ http = NoHttp

\* the request is answered with an error status before query_rag_async
AskRefused(client_id, authorization, status) ==
    /\ http' = Answered("ask", client_id, authorization, status)
    /\ UNCHANGED <<db, now, asks>>
    /\ RagFrame

\* POST /ask from its arrival to `await query_rag_async(...)`
AskArrive(a, authorization, client_id) ==
    /\ asks[a].pc = "idle"
    /\ db.usage_stats[client_id].requests_this_month < MaxCount
    /\ LET client == verify_api_key(db, authorization) IN
       IF client.status # 200
       THEN AskRefused(client_id, authorization, client.status)
       ELSE IF client_id # client.client_id
       THEN AskRefused(client_id, authorization, 403)
       ELSE IF ~check_limits(db, client.client_id)
       THEN AskRefused(client_id, authorization, 429)
       ELSE /\ asks' = [asks EXCEPT ![a] = [pc |-> "awaiting",
                                            client_id |-> client.client_id,
                                            key |-> authorization]]
            /\ UNCHANGED <<db, now, http>>
            /\ RagFrame

\* query_rag_async has returned: track_request, then the response
AskReturn(a) ==
    /\ asks[a].pc = "awaiting"
    /\ db' = track_request(db, asks[a].client_id, now)
    /\ http' = Answered("ask", asks[a].client_id, asks[a].key, 200)
    /\ asks' = [asks EXCEPT ![a] = [pc |-> "idle", client_id |-> <<>>, key |-> "none"]]
    /\ UNCHANGED now
    /\ RagFrame

\* a reset period passes
Tick ==
    /\ now < MaxNow
    /\ now' = now + 1
    /\ UNCHANGED <<db, asks, http>>
    /\ RagFrame

QuotaNext ==
    \/ \E a \in Callers, k \in Authorizations, c \in DbClients : AskArrive(a, k, c)
    \/ \E a \in Callers : AskReturn(a)
    \/ Tick

QuotaSpec == QuotaInit /\ [][QuotaNext]_vars

\* the event loop runs every coroutine that is ready (an answer comes back
\* within the timeouts of query_rag_async), the clock advances, and the
\* client on the finite plan keeps sending requests with its key
QuotaFairSpec ==
    /\ QuotaSpec
    /\ WF_vars(Tick)
    /\ \A a \in Callers : WF_vars(AskReturn(a))
    /\ \A a \in Callers : SF_vars(AskArrive(a, KeyOf[<<"b">>], <<"b">>))

(***************************************************************************)
(* The routes that write to a tenant's index: POST /upload,                *)
(* POST /upload-pdf and DELETE /documents/{client_id}/{doc_id}, called     *)
(* with every Authorization header (also none) for every client id.  Each  *)
(* handler runs to its response without an await that lets another         *)
(* handler change the store.                                               *)
(***************************************************************************)
\* both clients on the finite plan, with a key each
HttpDb ==
    create_api_key(
        create_api_key(
            create_client(create_client(NoDb, <<"b">>, "free", 0),
                          <<"c">>, "free", 0),
            <<"b">>, KeyOf[<<"b">>]),
        <<"c">>, KeyOf[<<"c">>])

\* the texts uploaded: "s" and the blank text
HttpContents == { <<"s">>, <<" ">> }

HttpInit ==
    /\ NoRag
    /\ db = HttpDb
    /\ now = 0
    /\ asks = NoAsks
    /\ http = NoHttp

HttpFrame == UNCHANGED <<pending, chunker, threads, gateway, now, asks>>

\* the request is answered before the store is touched
Refused(op, client_id, authorization, status) ==
    /\ http' = Answered(op, client_id, authorization, status)
    /\ UNCHANGED <<collections, last, db>>
    /\ HttpFrame

\* add_document called by a handler; `then` is the database after a
\* successful ingest
Ingest(op, client_id, doc_id, content, authorization, then) ==
    LET r == add_document(collections, client_id, doc_id, content, "none") IN
    /\ collections' = r.colls
    /\ last' = Obs("add_document", client_id, doc_id, content, r.failed_at, r.raised,
                   IF r.raised THEN RAISED ELSE <<"dict", "chunks_created">>,
                   Len(r.chunks), r.embed_calls, 0, <<>>)
    /\ db' = IF r.raised THEN db ELSE then
    /\ http' = Answered(op, client_id, authorization, IF r.raised THEN 500 ELSE 200)
    /\ HttpFrame

\* POST /upload: `async def upload(input: UploadInput)`, no dependency; the
\* validators of UploadInput refuse blank fields (422) and trim the others
Upload(authorization, client_id, doc_id, content) ==
    IF IsBlank(client_id) \/ IsBlank(doc_id) \/ IsBlank(content)
    THEN Refused("upload", client_id, authorization, 422)
    ELSE Ingest("upload", strip(client_id), strip(doc_id), strip(content),
                authorization, db)

\* POST /upload-pdf: Depends(verify_api_key), the client id check,
\* check_limits, then add_document with the text extracted from the file
\* and track_document_upload
UploadPdf(authorization, client_id, doc_id, content) ==
    LET client == verify_api_key(db, authorization) IN
    IF client.status # 200
    THEN Refused("upload-pdf", client_id, authorization, client.status)
    ELSE IF IsBlank(client_id) \/ IsBlank(doc_id)
    THEN Refused("upload-pdf", client_id, authorization, 400)
    ELSE IF client_id # client.client_id
    THEN Refused("upload-pdf", client_id, authorization, 403)
    ELSE IF ~check_limits(db, client.client_id)
    THEN Refused("upload-pdf", client_id, authorization, 429)
    ELSE IF IsBlank(content)
    THEN Refused("upload-pdf", client_id, authorization, 400)
    ELSE Ingest("upload-pdf", client_id, doc_id, content, authorization,
                track_document_upload(db, client.client_id))

\* DELETE /documents/{client_id}/{doc_id}: `async def delete_doc(client_id,
\* doc_id)`, no dependency
DeleteDoc(authorization, client_id, doc_id) ==
    LET r == delete_document(collections, client_id, doc_id, "none") IN
    /\ collections' = r.colls
    /\ last' = Obs("delete_document", client_id, doc_id, <<>>,
                   IF r.raised THEN "store" ELSE "none", r.raised,
                   IF r.raised THEN RAISED ELSE <<"dict", "deleted successfully">>,
                   0, 0, 0, <<>>)
    /\ http' = Answered("delete_doc", client_id, authorization,
                        IF r.raised THEN 500 ELSE 200)
    /\ UNCHANGED db
    /\ HttpFrame

\* an API key is revoked
Revoke(api_key) ==
    /\ db' = revoke_api_key(db, api_key)
    /\ http' = Answered("revoke_api_key", <<>>, "admin", 200)
    /\ UNCHANGED <<collections, last>>
    /\ HttpFrame

HttpNext ==
    \/ \E k \in Authorizations, c \in DbClients, d \in DbDocs, t \in HttpContents :
          Upload(k, c, d, t)
    \/ \E k \in Authorizations, c \in DbClients, d \in DbDocs, t \in HttpContents :
          UploadPdf(k, c, d, t)
    \/ \E k \in Authorizations, c \in DbClients, d \in DbDocs :
          DeleteDoc(k, c, d)
    \/ \E k \in ApiKeys : Revoke(k)

HttpSpec == HttpInit /\ [][HttpNext]_vars

(***************************************************************************)
(* Vocabulary of the properties.                                           *)
(***************************************************************************)
\* the collection a client id names in a store (empty when not created)
CollIn(colls, client_id) ==
    IF collection_name(client_id) \in DOMAIN colls
    THEN colls[collection_name(client_id)]
    ELSE EmptyCollection

Coll(client_id) == CollIn(collections, client_id)

\* id has the form doc_id + "_" + i for a natural number i
IsChunkIdOf(id, doc_id) ==
    /\ startswith(id, doc_id \o <<"_">>)
    /\ Len(id) > Len(doc_id) + 1
    /\ \A k \in (Len(doc_id) + 2)..Len(id) : id[k] \in Range(Digit)

\* the stored chunk ids of a document
ChunksOf(coll, doc_id) == {id \in DOMAIN coll : IsChunkIdOf(id, doc_id)}

\* what the chunker makes of a content under the configuration
Chunked(content) == chunk_text_default(content).chunks

\* the records an ingest of (doc_id, content) is to leave: id -> text
ChunkSet(doc_id, content) ==
    {<<chunk_id(doc_id, j - 1), Chunked(content)[j]>> : j \in 1..Len(Chunked(content))}

\* the records of a document that are stored: id -> text
StoredChunkSet(coll, doc_id) ==
    {<<id, coll[id].document>> : id \in ChunksOf(coll, doc_id)}

\* no other client id of the model is mapped to this client's collection
Unshared(client_id) ==
    \A other \in ClientIds :
        (~IsBlank(other) /\ other # client_id)
            => collection_name(other) # collection_name(client_id)

IngestDone == last.op = "add_document" /\ ~last.raised

\* C1 and C3 to C6 are stated of a tenant whose collection no other client id
\* shares, so that what they find is independent of C2.

(***************************************************************************)
(* C1: re-ingesting (tenant, doc_id) never accumulates chunks.  After a     *)
(* successful ingest of (t, d, content) the number of stored chunks of d   *)
(* is the chunk count of that ingest, and every stored chunk text of d is  *)
(* a chunk of that content (nothing of an earlier ingest is left).         *)
(***************************************************************************)
C1_ReingestReplaces ==
    (IngestDone /\ Unshared(last.client_id)) =>
        LET coll == Coll(last.client_id) IN
        /\ Cardinality(ChunksOf(coll, last.doc_id)) = last.chunks_created
        /\ \A id \in ChunksOf(coll, last.doc_id) :
              coll[id].document \in Range(Chunked(last.text))

(***************************************************************************)
(* C2: cross-tenant isolation.  A handler step made for one client id      *)
(* leaves unchanged what is stored in (hence counted in and returned from) *)
(* the collection of every other client id.                                *)
(***************************************************************************)
C2_CrossTenantIsolation ==
    [][\A b \in ClientIds :
          (~IsBlank(b) /\ b # last'.client_id)
              => CollIn(collections', b) = CollIn(collections, b)]_vars

(***************************************************************************)
(* C3: deleting a document makes it absent.  After delete(t, d) returns,   *)
(* no chunk id d + "_" + i remains in t's collection.                      *)
(***************************************************************************)
C3_DeleteMakesAbsent ==
    (last.op = "delete_document" /\ ~last.raised /\ Unshared(last.client_id)) =>
        ChunksOf(Coll(last.client_id), last.doc_id) = {}

(***************************************************************************)
(* C4: a query never observes a mixture of two ingests.  The chunks of a   *)
(* document that a retrieval returns are all chunks of one and the same    *)
(* ingested content.                                                       *)
(***************************************************************************)
C4_QuerySeesOneIngest ==
    (last.op = "await call_llm_async" /\ Unshared(last.client_id)) =>
        \A d \in DocIds :
            \E content \in Contents :
                \A j \in 1..Len(last.ids) :
                    IsChunkIdOf(last.ids[j], d) =>
                        <<last.ids[j], Coll(last.client_id)[last.ids[j]].document>>
                            \in ChunkSet(d, content)

(***************************************************************************)
(* C5: mutations of one (tenant, doc_id) are serialized, so the stored     *)
(* chunk set of a document is at all times the chunk set produced by       *)
(* exactly one ingest (or empty).                                          *)
(***************************************************************************)
C5_ChunkSetOfOneIngest ==
    \A c \in ClientIds, d \in DocIds :
        (~IsBlank(c) /\ ~IsBlank(d) /\ Unshared(c)) =>
            \/ StoredChunkSet(Coll(c), d) = {}
            \/ \E content \in Contents :
                  /\ ~IsBlank(content)
                  /\ StoredChunkSet(Coll(c), d) = ChunkSet(d, content)

(***************************************************************************)
(* C6: the chunk indices of a stored document are exactly 0..N-1, N the    *)
(* number of chunks the chunker produced for the content of its most       *)
(* recent successful ingest, and ingest returns chunks_created = N.        *)
(***************************************************************************)
C6_IndicesAreZeroToN ==
    (IngestDone /\ Unshared(last.client_id)) =>
        /\ last.chunks_created = Len(Chunked(last.text))
        /\ ChunksOf(Coll(last.client_id), last.doc_id)
              = {chunk_id(last.doc_id, i) : i \in 0..(last.chunks_created - 1)}

(***************************************************************************)
(* C7: answer never raises and always returns a string; on any internal    *)
(* failure the string is the fixed fallback.                               *)
(***************************************************************************)
C7_AnswerReturnsString ==
    last.op = "query_rag_async" =>
        /\ ~last.raised
        /\ IsStr(last.result)
        /\ (last.failed_at # "none" => last.result = FALLBACK)

(***************************************************************************)
(* C8: answer for a tenant with no chunks (valid tenant and question, the  *)
(* store reachable) returns the no-documents message, which is not the     *)
(* generic fallback; whatever the outcome, a query on a tenant with no     *)
(* chunks invokes neither the embedding model nor the generation backend.  *)
(***************************************************************************)
C8_NoDocumentsShortCircuit ==
    /\ NO_DOCUMENTS # FALLBACK
    /\ (last.op = "await call_llm_async" => coll_count(Coll(last.client_id)) > 0)
    /\ (/\ last.op = "query_rag_async"
        /\ last.llm_calls = 0
        /\ coll_count(Coll(last.client_id)) = 0)
       => /\ last.embed_calls = 0
          /\ (last.failed_at = "none" => last.result = NO_DOCUMENTS)

\* an answer on an empty tenant has returned the no-documents message
C8_AnswerOnEmptyTenant ==
    /\ last.op = "query_rag_async"
    /\ ~IsBlank(last.client_id) /\ ~IsBlank(last.text)
    /\ coll_count(Coll(last.client_id)) = 0
    /\ last.result = NO_DOCUMENTS
    /\ last.embed_calls = 0 /\ last.llm_calls = 0

(***************************************************************************)
(* C9: the generation gateway fails open.  A query that reached the        *)
(* gateway returns the backend's text when the backend answered 200 with   *)
(* {"response": <str>}, and the fixed fallback in every other case.        *)
(***************************************************************************)
C9_GatewayFailsOpen ==
    (last.op = "query_rag_async" /\ last.llm_calls = 1) =>
        last.result = IF last.failed_at = "none" THEN GENERATED ELSE FALLBACK

(***************************************************************************)
(* C10: ingest performs no partial write.  When chunking or embedding      *)
(* fails, the store is left exactly as it was before the call.             *)
(***************************************************************************)
C10_NoPartialWrite ==
    [][(last'.op = "add_document" /\ last'.failed_at \in {"chunk", "embed"})
          => collections' = collections]_vars

(***************************************************************************)
(* C11: ingest with a blank (empty or whitespace-only) tenant, doc_id or   *)
(* content raises at the input validation, before any expensive work: the  *)
(* collection is neither looked up nor created, nothing is chunked, the    *)
(* embedding model is not invoked and the store is left as it was.         *)
(***************************************************************************)
C11_EmptyInputRejectedEarly ==
    [][(/\ last'.op = "add_document"
        /\ \/ IsBlank(last'.client_id)
           \/ IsBlank(last'.doc_id)
           \/ IsBlank(last'.text))
          => /\ last'.raised
             /\ last'.failed_at = "validation"
             /\ last'.chunks_created = 0
             /\ last'.embed_calls = 0
             /\ collections' = collections]_vars

\* an ingest with a blank doc_id was rejected on a store that holds chunks
C11_BlankDocIdRejected ==
    /\ last.op = "add_document"
    /\ ~IsBlank(last.client_id) /\ IsBlank(last.doc_id) /\ ~IsBlank(last.text)
    /\ last.raised /\ last.failed_at = "validation"
    /\ coll_count(Coll(last.client_id)) > 0

(***************************************************************************)
(* C12: retrieval clamps k to the tenant's chunk count.  A query for k     *)
(* results on a tenant with c > 0 chunks reaches the generation call with  *)
(* exactly min(k, c) distinct chunks of the tenant (so at most k and at    *)
(* most c), and a query never returns the fallback because k > c: when no  *)
(* call fails, a query returns early only on a tenant without chunks.      *)
(***************************************************************************)
C12_RetrievalClampsK ==
    /\ last.op = "await call_llm_async" =>
          LET req == pending[Len(pending)]
              c == coll_count(Coll(req.client_id))
          IN  /\ c > 0
              /\ Len(req.ids) = (IF req.n_results <= c THEN req.n_results ELSE c)
              /\ Len(req.ids) <= req.n_results
              /\ Len(req.ids) <= c
              /\ Cardinality(Range(req.ids)) = Len(req.ids)
              /\ Range(req.ids) \subseteq DOMAIN Coll(req.client_id)
    /\ (last.op = "query_rag_async" /\ last.llm_calls = 0 /\ ~IsBlank(last.text)) =>
          /\ coll_count(Coll(last.client_id)) = 0
          /\ last.result = NO_DOCUMENTS

\* four results were asked of a tenant with three chunks, three were retrieved
C12_AskedFourOfThree ==
    /\ last.op = "await call_llm_async"
    /\ pending[Len(pending)].n_results = 4
    /\ coll_count(Coll(last.client_id)) = 3
    /\ Len(pending[Len(pending)].ids) = 3

(***************************************************************************)
(* C13: delete is idempotent.  delete(t, d) for a document that has no     *)
(* stored chunk returns the success message and leaves the records of t    *)
(* as they were (zero chunks removed); and a delete(t, d) that directly    *)
(* follows a successful delete(t, d) changes nothing in the store.         *)
(***************************************************************************)
C13_DeleteIdempotent ==
    [][(last'.op = "delete_document") =>
          /\ ChunksOf(Coll(last'.client_id), last'.doc_id) = {} =>
                /\ ~last'.raised
                /\ last'.result = <<"dict", "deleted successfully">>
                /\ CollIn(collections', last'.client_id) = Coll(last'.client_id)
          /\ (/\ last.op = "delete_document" /\ ~last.raised
              /\ last.client_id = last'.client_id
              /\ last.doc_id = last'.doc_id) =>
                /\ ~last'.raised
                /\ collections' = collections]_vars

\* a document that was never ingested was deleted from a tenant that holds
\* another document
C13_DeletedAbsentDocument ==
    /\ last.op = "delete_document" /\ ~last.raised
    /\ last.doc_id = <<"e">>
    /\ ChunksOf(Coll(last.client_id), <<"e">>) = {}
    /\ ChunksOf(Coll(last.client_id), <<"d">>) # {}

(***************************************************************************)
(* Vocabulary of the chunking claims.                                      *)
(***************************************************************************)
\* the maximal runs <<i, j>> of characters of text that are not terminators
SentenceRuns(text) ==
    {r \in (1..Len(text)) \X (1..Len(text)) :
        /\ r[1] <= r[2]
        /\ \A k \in r[1]..r[2] : ~IsTerminator(text[k])
        /\ (r[1] = 1 \/ IsTerminator(text[r[1] - 1]))
        /\ (r[2] = Len(text) \/ IsTerminator(text[r[2] + 1]))}

\* the non-empty sentences of a text, trimmed, in the order of the text
SentencesOf(text) ==
    LET runs == SentenceRuns(text)
        ordered == CHOOSE f \in [1..Cardinality(runs) -> runs] :
                      \A i, j \in 1..Cardinality(runs) : i < j => f[i][1] < f[j][1]
        trimmed == [i \in 1..Cardinality(runs) |->
                       strip(SubSeq(text, ordered[i][1], ordered[i][2]))]
        NonEmpty(x) == Len(x) > 0
    IN  SelectSeq(trimmed, NonEmpty)

\* the number of words of a string: the maximal runs of non-whitespace that
\* hold a character other than a terminator
WordsIn(s) ==
    Cardinality({i \in 1..Len(s) :
        /\ ~IsSpace(s[i])
        /\ (i = 1 \/ IsSpace(s[i - 1]))
        /\ \E j \in i..Len(s) :
              /\ ~IsTerminator(s[j])
              /\ \A k \in i..j : ~IsSpace(s[k])})

RECURSIVE SumOf(_)
SumOf(sizes) == IF Len(sizes) = 0 THEN 0 ELSE sizes[1] + SumOf(Tail(sizes))

\* the ways of cutting n sentences into m consecutive non-empty groups
Groupings(n, m) ==
    IF m < 1 \/ m > n THEN {}
    ELSE {sizes \in [1..m -> 1..n] : SumOf(sizes) = n}

\* the sentences of the i-th group
Group(sentences, sizes, i) ==
    LET before == SumOf(SubSeq(sizes, 1, i - 1))
    IN  SubSeq(sentences, before + 1, before + sizes[i])

\* chunks are the groups of `sizes`, the sentences of a group joined by " "
PackedAs(chunks, sentences, sizes) ==
    \A i \in 1..Len(chunks) :
        chunks[i] = join(<<" ">>, Group(sentences, sizes, i))

\* chunk_text has returned from a call with a non-blank text and valid
\* parameters
ChunkedValid ==
    /\ chunker.pc = "done"
    /\ \E i \in 1..Len(chunker.text) : ~IsSpace(chunker.text[i])
    /\ chunker.chunk_size > 0
    /\ chunker.overlap >= 0

(***************************************************************************)
(* C14: for a non-blank text and valid parameters chunk_text returns at    *)
(* least one chunk and no empty chunk, and the chunks are the non-empty    *)
(* sentences of the text in the order of the text, each sentence once,     *)
(* consecutive sentences grouped into one chunk; a text without any        *)
(* sentence (terminators and whitespace only) is returned whole.           *)
(***************************************************************************)
C14_ChunksAreTheSentences ==
    ChunkedValid =>
        LET chunks == chunker.chunks
            sentences == SentencesOf(chunker.text)
        IN  /\ ~chunker.err
            /\ Len(chunks) >= 1
            /\ \A i \in 1..Len(chunks) : Len(chunks[i]) > 0
            /\ IF Len(sentences) = 0
               THEN chunks = <<chunker.text>>
               ELSE \E sizes \in Groupings(Len(sentences), Len(chunks)) :
                       PackedAs(chunks, sentences, sizes)

\* three sentences were packed into two chunks
C14_ThreeSentencesTwoChunks ==
    /\ ChunkedValid
    /\ Len(SentencesOf(chunker.text)) = 3
    /\ Len(chunker.chunks) = 2

C16_ChunkRejectsInvalidInput ==
    chunker.pc = "done" =>
        LET blank == \A i \in 1..Len(chunker.text) : IsSpace(chunker.text[i])
            invalid == chunker.chunk_size <= 0 \/ chunker.overlap < 0
        IN  /\ blank => chunker.err /\ chunker.message = "Text cannot be empty"
            /\ (~blank /\ invalid) =>
                  chunker.err /\ chunker.message = "Invalid chunk parameters"
            /\ (~blank /\ ~invalid) => ~chunker.err /\ chunker.message = ""
            /\ chunker.err => chunker.chunks = <<>>

\* a call with a negative overlap, a positive chunk_size and a non-blank text
\* was rejected
C16_NegativeOverlapRejected ==
    /\ chunker.pc = "done"
    /\ chunker.overlap < 0 /\ chunker.chunk_size > 0
    /\ \E i \in 1..Len(chunker.text) : ~IsSpace(chunker.text[i])
    /\ chunker.err /\ chunker.message = "Invalid chunk parameters"

(***************************************************************************)
(* C17: the embedding model is constructed at most once per process, also  *)
(* when several requests make their first embedding call at cold start;    *)
(* every request that embeds does so with the cached model.                *)
(***************************************************************************)
C17_EmbedderConstructedOnce ==
    /\ embedder.constructions <= 1
    /\ \A c \in DOMAIN tasks :
          tasks[c].pc \in {"encode", "done"} =>
              embedder.cached /\ embedder.constructions = 1

\* all the requests that arrived at cold start have embedded, one model was
\* constructed
C17_AllEmbeddedWithOneModel ==
    /\ DOMAIN tasks = Callers
    /\ \A c \in Callers : tasks[c].pc = "done"
    /\ embedder.constructions = 1

(***************************************************************************)
(* C18: embedding and chunking run on the worker pool of four threads, off *)
(* the event loop.  A request that is chunking or embedding occupies a     *)
(* worker and not the event loop, at most max_workers requests do so at    *)
(* once, and while requests are chunking or embedding and others wait, a   *)
(* health check can be served.                                             *)
(***************************************************************************)
C18_CpuBoundWorkOffEventLoop ==
    /\ Cardinality(workers) <= max_workers
    /\ \A c \in DOMAIN tasks :
          tasks[c].pc \in CpuBound => (c \in workers /\ loop # c)
    /\ (\E c \in DOMAIN tasks : tasks[c].pc \in CpuBound) => loop = 0

(***************************************************************************)
(* C19: tenant collections are created lazily on the first write.  A read  *)
(* (answer, stats) leaves the set of collections unchanged, so no          *)
(* collection exists for a tenant that was never written; and a tenant     *)
(* identifier names the same collection on every call.                     *)
(***************************************************************************)
C19_ReadsCreateNoCollection ==
    [][/\ last'.op \in {"query_rag_async", "await call_llm_async", "get_client_stats"}
          => DOMAIN collections' = DOMAIN collections
       /\ \A c \in ClientIds :
             (~IsBlank(c) /\ collection_name(c) \in DOMAIN collections)
                 => collection_name(c) \in DOMAIN collections']_vars

(***************************************************************************)
(* Vocabulary of the context claim.                                        *)
(***************************************************************************)
\* part occurs in whole at position i
OccursAt(part, whole, i) ==
    /\ i >= 1
    /\ i + Len(part) - 1 <= Len(whole)
    /\ SubSeq(whole, i, i + Len(part) - 1) = part

Contains(whole, part) == \E i \in 1..(Len(whole) + 1) : OccursAt(part, whole, i)

(***************************************************************************)
(* C20: grounding context.  When a query reaches the generation call, the  *)
(* context is the retrieved chunk texts joined by newlines in retrieval    *)
(* order, the prompt holds the context and after it the question, and if   *)
(* the tenant holds at most n_results chunks the context contains the text *)
(* of every chunk of the tenant.                                           *)
(***************************************************************************)
C20_ContextHoldsRetrievedChunks ==
    last.op = "await call_llm_async" =>
        LET req == pending[Len(pending)]
            coll == Coll(req.client_id)
        IN  /\ req.context = join(<<"\n">>, [j \in 1..Len(req.ids) |->
                                                 coll[req.ids[j]].document])
            /\ \E i \in 1..Len(req.prompt), j \in 1..Len(req.prompt) :
                  /\ OccursAt(req.context, req.prompt, i)
                  /\ OccursAt(req.user_query, req.prompt, j)
                  /\ i + Len(req.context) <= j
            /\ coll_count(coll) <= req.n_results =>
                  \A id \in DOMAIN coll : Contains(req.context, coll[id].document)

\* the default three results were asked of a tenant with three chunks in two
\* documents, and the context holds the three texts
C20_ThreeChunksInContext ==
    /\ last.op = "await call_llm_async"
    /\ pending[Len(pending)].n_results = N_RESULTS
    /\ coll_count(Coll(last.client_id)) = 3
    /\ \A id \in DOMAIN Coll(last.client_id) :
          Contains(pending[Len(pending)].context, Coll(last.client_id)[id].document)

(***************************************************************************)
(* C21: chunk packing is greedy and maximal.  The chunks are consecutive   *)
(* groups of the sentences such that a chunk of several sentences has at   *)
(* most chunk_size words and, for every two adjacent chunks, the words of  *)
(* the earlier chunk plus the words of the first sentence of the later     *)
(* chunk exceed chunk_size: a chunk is closed only when the next sentence  *)
(* would not fit.                                                          *)
(***************************************************************************)
C21_PackingGreedyMaximal ==
    ChunkedValid =>
        LET chunks == chunker.chunks
            sentences == SentencesOf(chunker.text)
            N == chunker.chunk_size
        IN  Len(sentences) > 0 =>
               \E sizes \in Groupings(Len(sentences), Len(chunks)) :
                  /\ PackedAs(chunks, sentences, sizes)
                  /\ \A i \in 1..Len(chunks) :
                        sizes[i] > 1 => WordsIn(chunks[i]) <= N
                  /\ \A i \in 1..(Len(chunks) - 1) :
                        WordsIn(chunks[i])
                          + WordsIn(Group(sentences, sizes, i + 1)[1]) > N

\* a chunk of two sentences was filled to exactly chunk_size words and the
\* third sentence opened the next chunk
C21_ChunkFilledToTheLimit ==
    /\ ChunkedValid
    /\ Len(SentencesOf(chunker.text)) = 3
    /\ Len(chunker.chunks) = 2
    /\ chunker.chunk_size = 2
    /\ WordsIn(chunker.chunks[1]) = chunker.chunk_size

(***************************************************************************)
(* C22: no overlap is carried between chunks.  For a non-blank text and    *)
(* valid parameters the chunks returned are what chunk_text returns for    *)
(* the same text and chunk_size with any other overlap >= 0, and they cut  *)
(* the sentences of the text into consecutive groups, so that no sentence  *)
(* of the text is in two chunks.                                           *)
(***************************************************************************)
C22_OverlapNotCarried ==
    ChunkedValid =>
        LET chunks == chunker.chunks
            sentences == SentencesOf(chunker.text)
        IN  /\ \A o \in {x \in Overlaps : x >= 0} :
                  LET r == chunk_text(chunker.text, chunker.chunk_size, o)
                  IN  ~r.err /\ r.chunks = chunks
            /\ Len(sentences) > 0 =>
                  /\ Len(chunks) <= Len(sentences)
                  /\ \E sizes \in Groupings(Len(sentences), Len(chunks)) :
                        PackedAs(chunks, sentences, sizes)

\* a call with overlap 1 returned three chunks of one sentence each
C22_OverlapOneThreeChunks ==
    /\ ChunkedValid
    /\ chunker.overlap = 1
    /\ Len(SentencesOf(chunker.text)) = 3
    /\ Len(chunker.chunks) = 3

(***************************************************************************)
(* C23: ingestion uses batch embedding.  A successful ingest invokes the   *)
(* embedding model exactly once whatever the number of chunks, and after   *)
(* it chunk id d_i holds chunk i of the content together with vector i of  *)
(* the batch, the embedding of chunk i; embed_batch_texts of the empty     *)
(* list returns the empty list without invoking the model.                 *)
(***************************************************************************)
C23_BatchEmbeddingOneToOne ==
    /\ \A f \in AddDocumentFaults :
          LET r == embed_batch_texts(<<>>, f)
          IN  ~r.raised /\ r.calls = 0 /\ r.embeddings = <<>>
    /\ (IngestDone /\ Unshared(last.client_id)) =>
          LET coll == Coll(last.client_id)
              chunks == Chunked(last.text)
          IN  /\ last.embed_calls = 1
              /\ last.chunks_created = Len(chunks)
              /\ \A i \in 1..Len(chunks) :
                    LET id == chunk_id(last.doc_id, i - 1) IN
                    /\ id \in DOMAIN coll
                    /\ coll[id].document = chunks[i]
                    /\ coll[id].embedding = encode(chunks[i])

(***************************************************************************)
(* C24: no retry in the generation gateway.  A call of call_llm_async      *)
(* never issues a second HTTP request, and once it has returned it has     *)
(* issued exactly one, whatever the request came to (an answer, a status   *)
(* other than 200, a timeout, a failed connection, an unusable body); a    *)
(* query that reaches generation calls call_llm_async exactly once.        *)
(***************************************************************************)
C24_OneRequestPerGenerate ==
    \A c \in DOMAIN gateway :
        /\ gateway[c].requests <= 1
        /\ gateway[c].calls <= 1
        /\ gateway[c].pc \in {"posted", "returned", "answered"} =>
              gateway[c].requests = 1 /\ gateway[c].calls = 1

\* a query was answered with the fallback after its one request timed out
C24_TimedOutOnce ==
    \E c \in DOMAIN gateway :
        /\ gateway[c].pc = "answered"
        /\ gateway[c].reply = "timeout"
        /\ gateway[c].result = FALLBACK
        /\ gateway[c].requests = 1

(***************************************************************************)
(* C25: ingestion fails loudly.  An ingest in which the store or the       *)
(* embedding model fails raises to its caller, and an ingest that returns  *)
(* a result has written every chunk of the document: chunk id d_i of the   *)
(* tenant's collection holds chunk i of the content, for each of the N     *)
(* chunks.                                                                 *)
(***************************************************************************)
C25_IngestFailsLoudly ==
    last.op = "add_document" =>
        /\ last.failed_at # "none" => last.raised
        /\ (~last.raised /\ Unshared(last.client_id)) =>
              LET coll == Coll(last.client_id)
                  chunks == Chunked(last.text)
              IN  \A i \in 1..Len(chunks) :
                     /\ chunk_id(last.doc_id, i - 1) \in DOMAIN coll
                     /\ coll[chunk_id(last.doc_id, i - 1)].document = chunks[i]

(***************************************************************************)
(* C26: delete_client deletes the client and all related data.  When       *)
(* DELETE /admin/clients/{client_id} has answered 200 (delete_client       *)
(* returned True), no api_keys row, no usage_stats row and no documents    *)
(* row names that client id.                                               *)
(***************************************************************************)
C26_DeleteClientCascades ==
    (http.op = "delete_client" /\ http.status = 200) =>
        /\ http.client_id \notin DOMAIN db.clients
        /\ \A r \in db.api_keys : r.client_id # http.client_id
        /\ http.client_id \notin DOMAIN db.usage_stats
        /\ \A r \in db.documents : r.client_id # http.client_id

(***************************************************************************)
(* C27: the monthly reset restores service.  A client whose /ask was       *)
(* answered 429 for having reached max_requests_per_month, and whose       *)
(* monthly_reset date has passed, eventually gets an /ask answered 200.    *)
(***************************************************************************)
C27_ResetRestoresService ==
    \A c \in DbClients :
        (/\ http.op = "ask" /\ http.status = 429 /\ http.client_id = c
         /\ now > db.usage_stats[c].monthly_reset)
          ~> (http.op = "ask" /\ http.status = 200 /\ http.client_id = c)

(***************************************************************************)
(* C28: under every interleaving of concurrent /ask requests, the          *)
(* requests_this_month of a client on a finite plan never exceeds its      *)
(* max_requests_per_month.                                                 *)
(***************************************************************************)
C28_QuotaNeverExceeded ==
    \A c \in DOMAIN db.clients :
        (c \in DOMAIN db.usage_stats /\ db.clients[c].max_requests_per_month # 0 - 1) =>
            db.usage_stats[c].requests_this_month
                <= db.clients[c].max_requests_per_month

(***************************************************************************)
(* C29: every change of a tenant's stored chunks made through POST         *)
(* /upload, POST /upload-pdf or DELETE /documents is made by a request     *)
(* that presented an active API key of that tenant.                        *)
(***************************************************************************)
C29_MutationsAreAuthenticated ==
    [][\A t \in DbClients :
          CollIn(collections', t) # CollIn(collections, t) =>
              \E r \in db.api_keys :
                  /\ r.api_key = http'.key
                  /\ r.client_id = t
                  /\ r.is_active]_vars

(***************************************************************************)
(* C30: a delete or an ingest of (t, d) leaves unchanged the stored chunks *)
(* (ids and texts) of every other document d' of tenant t, also of a d'    *)
(* that begins with d and an underscore, and leaves unchanged the          *)
(* collection of every other tenant.                                       *)
(***************************************************************************)
\* the step leaves the chunks of the other documents of its tenant alone
OtherDocumentsKept ==
    \A d \in FrameDocIds :
        d # last'.doc_id =>
            StoredChunkSet(CollIn(collections', last'.client_id), d)
                = StoredChunkSet(CollIn(collections, last'.client_id), d)

\* the step leaves the collections of the other tenants alone
OtherTenantsKept ==
    \A t \in FrameClientIds :
        t # last'.client_id => CollIn(collections', t) = CollIn(collections, t)

C30_DeleteAndReingestFrame ==
    [][last'.op \in {"add_document", "delete_document"} =>
          OtherDocumentsKept /\ OtherTenantsKept]_vars

====
